---- MODULE Spec2Model ----
(***************************************************************************)
(* Reviewer-assignment service: the ReviewerService operations             *)
(* (src/unnamed/part_001) running as concurrent request handlers against   *)
(* the PostgreSQL store (src/internal/service/service_test.go, 244-637).   *)
(*                                                                         *)
(* Granularity.  Every store call of a handler is one step, and the local   *)
(* computation that follows it (filtering, the random pick, time.Now())    *)
(* belongs to that step.  A call made of one SQL statement, and a          *)
(* transaction run by withTx, take effect atomically (READ COMMITTED: the  *)
(* row lock of the first UPDATE/INSERT is held until commit and readers    *)
(* see committed rows only).  GetPullRequest is two statements outside any *)
(* transaction (header, then reviewer rows), hence two steps.              *)
(* CreateTeam and SetUserActive return the rows they wrote; what they      *)
(* return is not kept, only their error.                                   *)
(***************************************************************************)
EXTENDS Integers, Sequences, FiniteSets, TLC

\* ---------------------------------------------------------------- bounds
MaxCalls == 4
MaxTime == 2
MaxLimit == 3
MaxRows == 2

\* ------------------------------------------------------------ input sets
UserOrder == <<"u1", "u2", "u3", "u4">>
UserIDs == {UserOrder[i] : i \in 1..Len(UserOrder)}
TeamNames == {"backend", "frontend"}
PRIDs == {"pr-1"}
PRNames == {"Initial"}
Procs == {"h1", "h2"}

\* ------------------------------------------------------ program constants
StatusOpen == "OPEN"
StatusMerged == "MERGED"
NoTime == 0
CreateLimit == 2
ReplaceLimit == 1

NoErr == "nil"
ErrTeamExists == "team already exists"
ErrPRExists == "pull request already exists"
ErrPRMerged == "pull request already merged"
ErrReviewerNotFound == "reviewer is not assigned to this PR"
ErrNoReplacement == "no replacement candidate available"
ErrTeamNotFound == "team not found"
ErrUserNotFound == "user not found"
ErrPullRequestNotFound == "pull request not found"
ErrConstraint == "constraint violation"
ErrConn == "connection failure"

\* ----------------------------------------------------------------- state
VARIABLES
    teams,      \* table teams: the set of team names
    users,      \* table users: user_id -> [Username, TeamName, IsActive]
    prs,        \* table pull_requests: id -> [Name, AuthorID, Status, CreatedAt, MergedAt]
    reviewers,  \* table pull_request_reviewers: id -> set of reviewer ids
    now,        \* the last value time.Now() returned
    call,       \* handler -> the call it runs: arguments, position, locals, result
    ncalls,     \* calls started so far
    pick,       \* a call of pickReviewers taken alone: its arguments and result
    tx          \* a store write taken statement by statement: the transaction

vars == <<teams, users, prs, reviewers, now, call, ncalls, pick, tx>>

\* ------------------------------------------------------------ zero values
EmptyPR ==
    [ID |-> "", Name |-> "", AuthorID |-> "", Status |-> "",
     AssignedReviewers |-> <<>>, CreatedAt |-> NoTime, MergedAt |-> NoTime]

EmptyUser == [ID |-> "", Username |-> "", TeamName |-> "", IsActive |-> FALSE]

\* a slot of `call`.  op, prID, userID, team: the call and its arguments
\* (userID is the author for CreatePullRequest, the old reviewer for
\* ReassignReviewer); pc:
\* its position; pr, user, members, index: the handler's locals; err, out,
\* replacedBy, listed: what it returned.  Bookkeeping for the properties: loaded (the
\* PR as GetPullRequest returned it), wrote (a store transaction of the call
\* committed), prevMergedAt (the merge timestamp returned by the call that
\* held the slot before, when that was a successful merge of the same PR).
Idle ==
    [op |-> "idle", pc |-> "idle",
     prID |-> "", userID |-> "", team |-> "",
     pr |-> EmptyPR, user |-> EmptyUser, members |-> {},
     index |-> 0, loaded |-> EmptyPR, prevMergedAt |-> NoTime, wrote |-> FALSE,
     err |-> NoErr, out |-> EmptyPR, replacedBy |-> "", listed |-> <<>>]

\* no call of pickReviewers, no transaction, taken alone
NoPick == [pc |-> "none", users |-> <<>>, limit |-> 0, given |-> <<>>, result |-> <<>>]

NoTx == [pc |-> "none"]

\* --------------------------------------------------------- pure helpers
Range(s) == {s[i] : i \in 1..Len(s)}

RankOf(u) == CHOOSE i \in 1..Len(UserOrder) : UserOrder[i] = u

\* ORDER BY reviewer_id / ORDER BY user_id
RECURSIVE SortByID(_)
SortByID(S) ==
    IF S = {} THEN <<>>
    ELSE LET m == CHOOSE x \in S : \A y \in S : RankOf(x) <= RankOf(y)
         IN  <<m>> \o SortByID(S \ {m})

\* every arrangement of the elements of S without repetition, of length n
RECURSIVE Arrangements(_, _)
Arrangements(S, n) ==
    IF n = 0 \/ S = {} THEN {<<>>}
    ELSE UNION {{<<x>> \o rest : rest \in Arrangements(S \ {x}, n - 1)} : x \in S}

Min(a, b) == IF a < b THEN a ELSE b

contains(items, target) == \E i \in 1..Len(items) : items[i] = target

reviewerIndex(revs, target) ==
    IF contains(revs, target)
    THEN CHOOSE i \in 1..Len(revs) :
            revs[i] = target /\ \A j \in 1..(i - 1) : revs[j] # target
    ELSE -1

\* filterReviewers without the `user.ID == authorID` test
filterReviewers_KeepAuthor(members, authorID) ==
    {u \in members : u.IsActive}

filterReviewers(members, authorID) ==
    {u \in members : u.ID # authorID /\ u.IsActive}

\* filterForReplacement without the `contains(assigned, user.ID)` test
filterForReplacement_KeepAssigned(members, oldReviewerID, assigned) ==
    {u \in members : u.ID # oldReviewerID /\ u.IsActive}

\* filterForReplacement without the `!user.IsActive` test
filterForReplacement_KeepInactive(members, oldReviewerID, assigned) ==
    {u \in members : u.ID # oldReviewerID /\ ~contains(assigned, u.ID)}

filterForReplacement(members, oldReviewerID, assigned) ==
    {u \in members : u.ID # oldReviewerID /\ u.IsActive /\ ~contains(assigned, u.ID)}

\* pickReviewers without the `limit > len(copyUsers)` clamp and the
\* truncation to limit: every candidate is returned
pickReviewers_NoLimit(candidates, limit) ==
    IF candidates = {} \/ limit <= 0 THEN {<<>>}
    ELSE Arrangements({u.ID : u \in candidates}, Cardinality(candidates))

\* the results rnd.Shuffle followed by the first `limit` ids can produce
pickReviewers(candidates, limit) ==
    IF candidates = {} \/ limit <= 0 THEN {<<>>}
    ELSE Arrangements({u.ID : u \in candidates},
                      Min(limit, Cardinality(candidates)))

\* ------------------------------------------------------------ store reads
UserRow(u) ==
    [ID |-> u, Username |-> users[u].Username,
     TeamName |-> users[u].TeamName, IsActive |-> users[u].IsActive]

\* SELECT ... FROM users WHERE team_name = $1
UsersOfTeam(t) == {UserRow(u) : u \in {x \in DOMAIN users : users[x].TeamName = t}}

\* SELECT ... FROM pull_requests WHERE pull_request_id = $1
PRHeader(id) ==
    [ID |-> id, Name |-> prs[id].Name, AuthorID |-> prs[id].AuthorID,
     Status |-> prs[id].Status, AssignedReviewers |-> <<>>,
     CreatedAt |-> prs[id].CreatedAt, MergedAt |-> prs[id].MergedAt]

\* SELECT reviewer_id FROM pull_request_reviewers ... ORDER BY reviewer_id
ReviewerRows(id) == IF id \in DOMAIN reviewers THEN SortByID(reviewers[id]) ELSE <<>>

HasDuplicates(s) == \E i, j \in 1..Len(s) : i < j /\ s[i] = s[j]

\* ----------------------------------------------------------------- Init
Init ==
    /\ teams = {}
    /\ users = <<>>
    /\ prs = <<>>
    /\ reviewers = <<>>
    /\ now = 1
    /\ call = [p \in Procs |-> Idle]
    /\ ncalls = 0
    /\ pick = NoPick
    /\ tx = NoTx

Free(p) == call[p].pc \in {"idle", "done"}

\* a request is served by a goroutine of its own: which slot of `call` holds it
\* is immaterial, so it takes the first free one
CanStart(p) == Free(p) /\ ncalls < MaxCalls /\ (p = "h2" => ~Free("h1"))

\* a call returns: its locals are gone, its arguments and results stay; with
\* an error the handlers return zero values
Finish(c, e) ==
    [Idle EXCEPT !.op = c.op, !.pc = "done", !.prID = c.prID, !.userID = c.userID,
                 !.team = c.team, !.prevMergedAt = c.prevMergedAt,
                 !.wrote = c.wrote, !.err = e,
                 !.out = IF e = NoErr THEN c.out ELSE EmptyPR,
                 !.replacedBy = IF e = NoErr THEN c.replacedBy ELSE ""]

\* time.Now(): the clock never runs backwards; a read returns the last value
\* read or a later one
TimeReads == {t \in {now, now + 1} : t <= MaxTime}

\* ------------------------------------------------ CreateTeam / SetUserActive
\* the request bodies POST /team/add is called with: a roster is a run of
\* ids, from the first id on for one team and up to the last id for the
\* other; all members of a request are active and carry one display name
Roster(t, k) ==
    IF t = "backend"
    THEN {UserOrder[i] : i \in 1..k}
    ELSE {UserOrder[i] : i \in (Len(UserOrder) - k + 1)..Len(UserOrder)}

NameIn(t) == IF t = "backend" THEN "Alice" ELSE "Bob"

TeamRequests ==
    {[team |-> t, ids |-> Roster(t, k), inactive |-> {}, username |-> NameIn(t)] :
        t \in TeamNames, k \in 1..Len(UserOrder)}

\* INSERT INTO users ... ON CONFLICT (user_id) DO UPDATE, once per member
UpsertMembers(req) ==
    [u \in DOMAIN users \cup req.ids |->
        IF u \in req.ids
        THEN [Username |-> req.username, TeamName |-> req.team,
              IsActive |-> u \notin req.inactive]
        ELSE users[u]]

\* Store.CreateTeam without the `return domain.ErrTeamExists` of the SELECT:
\* the members are upserted, then the INSERT of the team fails
CreateTeam_UpsertAnyway(p, req) ==
    /\ CanStart(p)
    /\ ncalls' = ncalls + 1
    /\ LET c == [Idle EXCEPT !.op = "CreateTeam", !.team = req.team]
       IN  IF req.team \in teams
           THEN /\ call' = [call EXCEPT ![p] = Finish(c, ErrTeamExists)]
                /\ users' = UpsertMembers(req)
                /\ UNCHANGED teams
           ELSE /\ teams' = teams \cup {req.team}
                /\ users' = UpsertMembers(req)
                /\ call' = [call EXCEPT ![p] = Finish([c EXCEPT !.wrote = TRUE], NoErr)]
    /\ UNCHANGED <<prs, reviewers, now, pick, tx>>

\* Store.CreateTeam: the transaction (SELECT the team, INSERT it, upsert the
\* members), then s.GetTeam, which only reads
CreateTeam(p, req) ==
    /\ CanStart(p)
    /\ ncalls' = ncalls + 1
    /\ LET c == [Idle EXCEPT !.op = "CreateTeam", !.team = req.team]
       IN  IF req.team \in teams
           THEN /\ call' = [call EXCEPT ![p] = Finish(c, ErrTeamExists)]
                /\ UNCHANGED <<teams, users>>
           ELSE /\ teams' = teams \cup {req.team}
                /\ users' = UpsertMembers(req)
                /\ call' = [call EXCEPT ![p] = Finish([c EXCEPT !.wrote = TRUE], NoErr)]
    /\ UNCHANGED <<prs, reviewers, now, pick, tx>>

\* UPDATE users SET is_active = $2 WHERE user_id = $1 RETURNING ...
SetActiveRow(u, isActive) == [users EXCEPT ![u].IsActive = isActive]

\* SetUserActive that also takes a deactivated user off the PRs they review
SetUserActive_Unassigns(p, u, isActive) ==
    /\ CanStart(p)
    /\ ncalls' = ncalls + 1
    /\ LET c == [Idle EXCEPT !.op = "SetUserActive", !.userID = u]
       IN  IF u \in DOMAIN users
           THEN /\ users' = SetActiveRow(u, isActive)
                /\ reviewers' = [id \in DOMAIN reviewers |->
                                    IF isActive THEN reviewers[id] ELSE reviewers[id] \ {u}]
                /\ call' = [call EXCEPT ![p] = Finish([c EXCEPT !.wrote = TRUE], NoErr)]
           ELSE /\ call' = [call EXCEPT ![p] = Finish(c, ErrUserNotFound)]
                /\ UNCHANGED <<users, reviewers>>
    /\ UNCHANGED <<teams, prs, now, pick, tx>>

SetUserActive(p, u, isActive) ==
    /\ CanStart(p)
    /\ ncalls' = ncalls + 1
    /\ LET c == [Idle EXCEPT !.op = "SetUserActive", !.userID = u]
       IN  IF u \in DOMAIN users
           THEN /\ users' = SetActiveRow(u, isActive)
                /\ call' = [call EXCEPT ![p] = Finish([c EXCEPT !.wrote = TRUE], NoErr)]
           ELSE /\ call' = [call EXCEPT ![p] = Finish(c, ErrUserNotFound)]
                /\ UNCHANGED users
    /\ UNCHANGED <<teams, prs, reviewers, now, pick, tx>>

\* ------------------------------------------------------- store: PR writes
HeaderRow(pr) ==
    [Name |-> pr.Name, AuthorID |-> pr.AuthorID, Status |-> pr.Status,
     CreatedAt |-> pr.CreatedAt, MergedAt |-> pr.MergedAt]

\* Store.CreatePullRequest with a translateError that lacks the
\* "pull_requests_pkey" case: the unique violation is passed through
CreatePRError_Passthrough(pr) ==
    IF pr.ID \in DOMAIN prs THEN ErrConstraint
    ELSE IF pr.AuthorID \notin DOMAIN users THEN ErrConstraint
    ELSE IF HasDuplicates(pr.AssignedReviewers) THEN ErrConstraint
    ELSE IF ~(Range(pr.AssignedReviewers) \subseteq DOMAIN users) THEN ErrConstraint
    ELSE NoErr

\* the error Store.CreatePullRequest returns, NoErr when the transaction commits
CreatePRError(pr) ==
    IF pr.ID \in DOMAIN prs THEN ErrPRExists
    ELSE IF pr.AuthorID \notin DOMAIN users THEN ErrConstraint
    ELSE IF HasDuplicates(pr.AssignedReviewers) THEN ErrConstraint
    ELSE IF ~(Range(pr.AssignedReviewers) \subseteq DOMAIN users) THEN ErrConstraint
    ELSE NoErr

\* the error Store.UpdatePullRequest returns, NoErr when the transaction commits
UpdatePRError(pr) ==
    IF pr.ID \notin DOMAIN prs THEN ErrPullRequestNotFound
    ELSE IF pr.AuthorID \notin DOMAIN users THEN ErrConstraint
    ELSE IF HasDuplicates(pr.AssignedReviewers) THEN ErrConstraint
    ELSE IF ~(Range(pr.AssignedReviewers) \subseteq DOMAIN users) THEN ErrConstraint
    ELSE NoErr

\* the tables after the transaction of Create/UpdatePullRequest commits
PutHeader(pr) ==
    [id \in DOMAIN prs \cup {pr.ID} |-> IF id = pr.ID THEN HeaderRow(pr) ELSE prs[id]]

PutReviewers(pr) ==
    [id \in DOMAIN reviewers \cup {pr.ID} |->
        IF id = pr.ID THEN Range(pr.AssignedReviewers) ELSE reviewers[id]]

\* Store.UpdatePullRequest's transaction, run by handler p with the locals c
StoreUpdate(p, c) ==
    LET e == UpdatePRError(c.pr)
    IN  IF e = NoErr
        THEN /\ prs' = PutHeader(c.pr)
             /\ reviewers' = PutReviewers(c.pr)
             /\ call' = [call EXCEPT ![p] = [c EXCEPT !.pc = "ret_hdr", !.wrote = TRUE]]
        ELSE /\ call' = [call EXCEPT ![p] = Finish(c, e)]
             /\ UNCHANGED <<prs, reviewers>>

\* the closing s.GetPullRequest of Store.Create/UpdatePullRequest: the header
ReturnHeader(p) ==
    /\ call[p].pc = "ret_hdr"
    /\ IF call[p].prID \in DOMAIN prs
       THEN call' = [call EXCEPT ![p] =
                [call[p] EXCEPT !.pc = "ret_rev", !.out = PRHeader(call[p].prID)]]
       ELSE call' = [call EXCEPT ![p] =
                Finish(call[p], ErrPullRequestNotFound)]
    /\ UNCHANGED <<teams, users, prs, reviewers, now, ncalls, pick, tx>>

\* ... and the reviewer rows
ReturnReviewers(p) ==
    /\ call[p].pc = "ret_rev"
    /\ call' = [call EXCEPT ![p] =
            Finish([call[p] EXCEPT !.out.AssignedReviewers = ReviewerRows(call[p].prID)],
                   NoErr)]
    /\ UNCHANGED <<teams, users, prs, reviewers, now, ncalls, pick, tx>>

\* ------------------------------------------------------ CreatePullRequest
\* CreatePullRequest going on after s.repo.GetUser found no author
CreatePRGetUser_NoAuthorCheck(p, id, name, author) ==
    /\ CanStart(p)
    /\ ncalls' = ncalls + 1
    /\ LET c == [Idle EXCEPT !.op = "CreatePullRequest", !.prID = id,
                             !.userID = author,
                             !.pr = [EmptyPR EXCEPT !.ID = id, !.Name = name,
                                                    !.AuthorID = author]]
       IN  call' = [call EXCEPT ![p] =
                [c EXCEPT !.pc = "cp_list",
                          !.user = IF author \in DOMAIN users
                                   THEN UserRow(author) ELSE EmptyUser]]
    /\ UNCHANGED <<teams, users, prs, reviewers, now, pick, tx>>

\* s.repo.GetUser(ctx, pr.AuthorID)
CreatePRGetUser(p, id, name, author) ==
    /\ CanStart(p)
    /\ ncalls' = ncalls + 1
    /\ LET c == [Idle EXCEPT !.op = "CreatePullRequest", !.prID = id,
                             !.userID = author,
                             !.pr = [EmptyPR EXCEPT !.ID = id, !.Name = name,
                                                    !.AuthorID = author]]
       IN  IF author \in DOMAIN users
           THEN call' = [call EXCEPT ![p] =
                    [c EXCEPT !.pc = "cp_list", !.user = UserRow(author)]]
           ELSE call' = [call EXCEPT ![p] = Finish(c, ErrUserNotFound)]
    /\ UNCHANGED <<teams, users, prs, reviewers, now, pick, tx>>

\* s.repo.ListUsersByTeam(ctx, author.TeamName), filterReviewers, and the
\* call of pickReviewers, which returns at once for no candidates and is
\* otherwise inside s.rnd.Shuffle when the step ends
CreatePRListUsers(p) ==
    /\ call[p].pc = "cp_list"
    /\ IF call[p].user.TeamName \in teams
       THEN LET members == UsersOfTeam(call[p].user.TeamName)
            IN  call' = [call EXCEPT ![p] =
                    [call[p] EXCEPT
                        !.pc = IF filterReviewers(members, call[p].pr.AuthorID) = {}
                               THEN "cp_create" ELSE "cp_shuffle",
                        !.members = members]]
       ELSE call' = [call EXCEPT ![p] = Finish(call[p], ErrTeamNotFound)]
    /\ UNCHANGED <<teams, users, prs, reviewers, now, ncalls, pick, tx>>

\* s.rnd.Shuffle returns.  The generator is s.rnd of the one ReviewerService,
\* used without a lock; what the shuffle produced is drawn where it is first
\* used, in CreatePRStore
CreatePRShuffle(p) ==
    /\ call[p].pc = "cp_shuffle"
    /\ call' = [call EXCEPT ![p] = [call[p] EXCEPT !.pc = "cp_create"]]
    /\ UNCHANGED <<teams, users, prs, reviewers, now, ncalls, pick, tx>>

\* the PR CreatePullRequest hands to the store
NewPR(pr, picked, t) ==
    [pr EXCEPT !.AssignedReviewers = picked, !.Status = StatusOpen, !.CreatedAt = t]

\* filterReviewers, pickReviewers, time.Now(), then the transaction of
\* s.repo.CreatePullRequest(ctx, pr)
CreatePRStore(p) ==
    /\ call[p].pc = "cp_create"
    /\ \E picked \in pickReviewers(filterReviewers(call[p].members, call[p].pr.AuthorID),
                                   CreateLimit),
          t \in TimeReads :
        LET pr == NewPR(call[p].pr, picked, t)
            e  == CreatePRError(pr)
        IN  /\ now' = t
            /\ IF e = NoErr
               THEN /\ prs' = PutHeader(pr)
                    /\ reviewers' = PutReviewers(pr)
                    /\ call' = [call EXCEPT ![p] =
                            [call[p] EXCEPT !.pc = "ret_hdr", !.pr = pr, !.wrote = TRUE]]
               ELSE /\ call' = [call EXCEPT ![p] = Finish(call[p], e)]
                    /\ UNCHANGED <<prs, reviewers>>
    /\ UNCHANGED <<teams, users, ncalls, pick, tx>>

\* ------------------------------------------------------- MergePullRequest
PrevMerge(c, id) ==
    IF c.pc = "done" /\ c.op = "MergePullRequest" /\ c.prID = id /\ c.err = NoErr
    THEN c.out.MergedAt
    ELSE NoTime

\* s.repo.GetPullRequest: the header
MergeGetHeader(p, id) ==
    /\ CanStart(p)
    /\ ncalls' = ncalls + 1
    /\ LET c == [Idle EXCEPT !.op = "MergePullRequest", !.prID = id,
                             !.prevMergedAt = PrevMerge(call[p], id)]
       IN  IF id \in DOMAIN prs
           THEN call' = [call EXCEPT ![p] = [c EXCEPT !.pc = "mp_rev", !.pr = PRHeader(id)]]
           ELSE call' = [call EXCEPT ![p] = Finish(c, ErrPullRequestNotFound)]
    /\ UNCHANGED <<teams, users, prs, reviewers, now, pick, tx>>

\* MergePullRequest without the `pr.MergedAt = &now` assignment
MergedPR_NoTimestamp(pr, t) == [pr EXCEPT !.Status = StatusMerged]

\* pr.Status = StatusMerged; pr.MergedAt = &now
MergedPR(pr, t) == [pr EXCEPT !.Status = StatusMerged, !.MergedAt = t]

\* MergePullRequest without the `pr.Status == domain.StatusMerged` return
MergeGetReviewers_NoShortCircuit(p) ==
    /\ call[p].pc = "mp_rev"
    /\ LET pr == [call[p].pr EXCEPT !.AssignedReviewers = ReviewerRows(call[p].prID)]
       IN  \E t \in TimeReads :
                /\ now' = t
                /\ call' = [call EXCEPT ![p] =
                        [call[p] EXCEPT !.pc = "mp_update", !.loaded = pr,
                                        !.pr = MergedPR(pr, t)]]
    /\ UNCHANGED <<teams, users, prs, reviewers, ncalls, pick, tx>>

\* MergePullRequest merging the header alone: the reviewer rows GetPullRequest
\* read are not kept in pr.AssignedReviewers
MergeGetReviewers_HeaderOnly(p) ==
    /\ call[p].pc = "mp_rev"
    /\ LET pr == [call[p].pr EXCEPT !.AssignedReviewers = ReviewerRows(call[p].prID)]
       IN  IF pr.Status = StatusMerged
           THEN /\ call' = [call EXCEPT ![p] =
                        Finish([call[p] EXCEPT !.pr = pr, !.out = pr], NoErr)]
                /\ UNCHANGED now
           ELSE \E t \in TimeReads :
                    /\ now' = t
                    /\ call' = [call EXCEPT ![p] =
                            [call[p] EXCEPT !.pc = "mp_update", !.loaded = pr,
                                            !.pr = MergedPR(call[p].pr, t)]]
    /\ UNCHANGED <<teams, users, prs, reviewers, ncalls, pick, tx>>

\* s.repo.GetPullRequest: the reviewer rows; then the short-circuit on MERGED,
\* or time.Now() and the new status
MergeGetReviewers(p) ==
    /\ call[p].pc = "mp_rev"
    /\ LET pr == [call[p].pr EXCEPT !.AssignedReviewers = ReviewerRows(call[p].prID)]
       IN  IF pr.Status = StatusMerged
           THEN /\ call' = [call EXCEPT ![p] =
                        Finish([call[p] EXCEPT !.pr = pr, !.out = pr], NoErr)]
                /\ UNCHANGED now
           ELSE \E t \in TimeReads :
                    /\ now' = t
                    /\ call' = [call EXCEPT ![p] =
                            [call[p] EXCEPT !.pc = "mp_update", !.loaded = pr,
                                            !.pr = MergedPR(pr, t)]]
    /\ UNCHANGED <<teams, users, prs, reviewers, ncalls, pick, tx>>

\* s.repo.UpdatePullRequest(ctx, pr)
MergeUpdate(p) ==
    /\ call[p].pc = "mp_update"
    /\ StoreUpdate(p, call[p])
    /\ UNCHANGED <<teams, users, now, ncalls, pick, tx>>

\* ------------------------------------------------------- ReassignReviewer
\* s.repo.GetPullRequest: the header
ReassignGetHeader(p, id, old) ==
    /\ CanStart(p)
    /\ ncalls' = ncalls + 1
    /\ LET c == [Idle EXCEPT !.op = "ReassignReviewer", !.prID = id, !.userID = old]
       IN  IF id \in DOMAIN prs
           THEN call' = [call EXCEPT ![p] = [c EXCEPT !.pc = "rr_rev", !.pr = PRHeader(id)]]
           ELSE call' = [call EXCEPT ![p] = Finish(c, ErrPullRequestNotFound)]
    /\ UNCHANGED <<teams, users, prs, reviewers, now, pick, tx>>

\* ReassignReviewer without the `pr.Status == domain.StatusMerged` test
ReassignGetReviewers_NoMergedCheck(p) ==
    /\ call[p].pc = "rr_rev"
    /\ LET pr  == [call[p].pr EXCEPT !.AssignedReviewers = ReviewerRows(call[p].prID)]
           idx == reviewerIndex(pr.AssignedReviewers, call[p].userID)
           c   == [call[p] EXCEPT !.pr = pr, !.index = idx, !.loaded = pr]
       IN  IF idx = -1
           THEN call' = [call EXCEPT ![p] = Finish(c, ErrReviewerNotFound)]
           ELSE call' = [call EXCEPT ![p] = [c EXCEPT !.pc = "rr_user"]]
    /\ UNCHANGED <<teams, users, prs, reviewers, now, ncalls, pick, tx>>

\* ReassignReviewer without the `index == -1` test
ReassignGetReviewers_NoIndexCheck(p) ==
    /\ call[p].pc = "rr_rev"
    /\ LET pr  == [call[p].pr EXCEPT !.AssignedReviewers = ReviewerRows(call[p].prID)]
           idx == reviewerIndex(pr.AssignedReviewers, call[p].userID)
           c   == [call[p] EXCEPT !.pr = pr, !.index = idx, !.loaded = pr]
       IN  IF pr.Status = StatusMerged
           THEN call' = [call EXCEPT ![p] = Finish(c, ErrPRMerged)]
           ELSE call' = [call EXCEPT ![p] = [c EXCEPT !.pc = "rr_user"]]
    /\ UNCHANGED <<teams, users, prs, reviewers, now, ncalls, pick, tx>>

\* ReassignReviewer with the index test moved before the status test
ReassignGetReviewers_IndexFirst(p) ==
    /\ call[p].pc = "rr_rev"
    /\ LET pr  == [call[p].pr EXCEPT !.AssignedReviewers = ReviewerRows(call[p].prID)]
           idx == reviewerIndex(pr.AssignedReviewers, call[p].userID)
           c   == [call[p] EXCEPT !.pr = pr, !.index = idx, !.loaded = pr]
       IN  IF idx = -1
           THEN call' = [call EXCEPT ![p] = Finish(c, ErrReviewerNotFound)]
           ELSE IF pr.Status = StatusMerged
           THEN call' = [call EXCEPT ![p] = Finish(c, ErrPRMerged)]
           ELSE call' = [call EXCEPT ![p] = [c EXCEPT !.pc = "rr_user"]]
    /\ UNCHANGED <<teams, users, prs, reviewers, now, ncalls, pick, tx>>

\* s.repo.GetPullRequest: the reviewer rows; then the status and index checks
ReassignGetReviewers(p) ==
    /\ call[p].pc = "rr_rev"
    /\ LET pr  == [call[p].pr EXCEPT !.AssignedReviewers = ReviewerRows(call[p].prID)]
           idx == reviewerIndex(pr.AssignedReviewers, call[p].userID)
           c   == [call[p] EXCEPT !.pr = pr, !.index = idx, !.loaded = pr]
       IN  IF pr.Status = StatusMerged
           THEN call' = [call EXCEPT ![p] = Finish(c, ErrPRMerged)]
           ELSE IF idx = -1
           THEN call' = [call EXCEPT ![p] = Finish(c, ErrReviewerNotFound)]
           ELSE call' = [call EXCEPT ![p] = [c EXCEPT !.pc = "rr_user"]]
    /\ UNCHANGED <<teams, users, prs, reviewers, now, ncalls, pick, tx>>

\* s.repo.GetUser(ctx, oldReviewerID)
ReassignGetUser(p) ==
    /\ call[p].pc = "rr_user"
    /\ IF call[p].userID \in DOMAIN users
       THEN call' = [call EXCEPT ![p] =
                [call[p] EXCEPT !.pc = "rr_list", !.user = UserRow(call[p].userID)]]
       ELSE call' = [call EXCEPT ![p] = Finish(call[p], ErrUserNotFound)]
    /\ UNCHANGED <<teams, users, prs, reviewers, now, ncalls, pick, tx>>

\* the replacement appended instead of written over the old reviewer
Replaced_Appended(pr, index, id) ==
    [pr EXCEPT !.AssignedReviewers = Append(@, id)]

\* pr.AssignedReviewers[index] = replacement[0]
Replaced(pr, index, id) == [pr EXCEPT !.AssignedReviewers[index] = id]

\* the candidates with the PR's author removed as well
Candidates_ExcludeAuthor(c) ==
    {u \in filterForReplacement(c.members, c.userID, c.pr.AssignedReviewers) :
        u.ID # c.pr.AuthorID}

\* the candidates ReassignReviewer computes from what it has loaded
Candidates(c) == filterForReplacement(c.members, c.userID, c.pr.AssignedReviewers)

\* s.repo.ListUsersByTeam(ctx, oldReviewer.TeamName), the check for an
\* empty candidate list, and the call of pickReviewers, which is inside
\* s.rnd.Shuffle when the step ends
ReassignListUsers(p) ==
    /\ call[p].pc = "rr_list"
    /\ IF call[p].user.TeamName \notin teams
       THEN call' = [call EXCEPT ![p] = Finish(call[p], ErrTeamNotFound)]
       ELSE LET c == [call[p] EXCEPT !.members = UsersOfTeam(call[p].user.TeamName)]
            IN  IF Candidates(c) = {}
                THEN call' = [call EXCEPT ![p] = Finish(c, ErrNoReplacement)]
                ELSE call' = [call EXCEPT ![p] = [c EXCEPT !.pc = "rr_shuffle"]]
    /\ UNCHANGED <<teams, users, prs, reviewers, now, ncalls, pick, tx>>

\* s.rnd.Shuffle returns; its result is drawn in ReassignUpdate
ReassignShuffle(p) ==
    /\ call[p].pc = "rr_shuffle"
    /\ call' = [call EXCEPT ![p] = [call[p] EXCEPT !.pc = "rr_update"]]
    /\ UNCHANGED <<teams, users, prs, reviewers, now, ncalls, pick, tx>>

\* pickReviewers, the assignment to pr.AssignedReviewers[index], then the
\* transaction of s.repo.UpdatePullRequest(ctx, pr)
ReassignUpdate(p) ==
    /\ call[p].pc = "rr_update"
    /\ \E r \in pickReviewers(Candidates(call[p]), ReplaceLimit) :
        IF Len(r) = 0
        THEN /\ call' = [call EXCEPT ![p] = Finish(call[p], ErrNoReplacement)]
             /\ UNCHANGED <<prs, reviewers>>
        ELSE StoreUpdate(p, [call[p] EXCEPT !.replacedBy = r[1],
                                            !.pr = Replaced(call[p].pr, call[p].index, r[1])])
    /\ UNCHANGED <<teams, users, now, ncalls, pick, tx>>

\* -------------------------------------------------------- ListUserReviews
\* the statement with an extra `AND pr.status = 'OPEN'`
ReviewedBy_OpenOnly(u) ==
    {id \in DOMAIN prs : u \in reviewers[id] /\ prs[id].Status = StatusOpen}

\* the rows of pull_requests JOIN pull_request_reviewers WHERE reviewer_id = $1
ReviewedBy(u) == {id \in DOMAIN prs : u \in reviewers[id]}

\* a row as ListPullRequestsByReviewer scans it: the header columns only
ListedRow(id) == PRHeader(id)

\* ORDER BY pr.created_at DESC: the orders the statement can return the rows in
ListPullRequestsByReviewer(u) ==
    {[i \in 1..Len(s) |-> ListedRow(s[i])] :
        s \in {a \in Arrangements(ReviewedBy(u), Cardinality(ReviewedBy(u))) :
                  \A i, j \in 1..Len(a) :
                      i < j => prs[a[i]].CreatedAt >= prs[a[j]].CreatedAt}}

\* ReviewerService.ListUserReviews: one SELECT, no write
ListUserReviews(p, u) ==
    /\ CanStart(p)
    /\ ncalls' = ncalls + 1
    /\ \E rows \in ListPullRequestsByReviewer(u) :
        call' = [call EXCEPT ![p] =
            [Finish([Idle EXCEPT !.op = "ListUserReviews", !.userID = u], NoErr)
                EXCEPT !.listed = rows]]
    /\ UNCHANGED <<teams, users, prs, reviewers, now, pick, tx>>

\* ------------------------------------------------------------------ Next
\* one step of the handler in slot p
Step(p) ==
    \/ \E req \in TeamRequests : CreateTeam(p, req)
    \/ \E u \in UserIDs, f \in BOOLEAN : SetUserActive(p, u, f)
    \/ \E id \in PRIDs, name \in PRNames, a \in UserIDs : CreatePRGetUser(p, id, name, a)
    \/ CreatePRListUsers(p)
    \/ CreatePRShuffle(p)
    \/ CreatePRStore(p)
    \/ \E id \in PRIDs : MergeGetHeader(p, id)
    \/ MergeGetReviewers(p)
    \/ MergeUpdate(p)
    \/ \E id \in PRIDs, old \in UserIDs : ReassignGetHeader(p, id, old)
    \/ ReassignGetReviewers(p)
    \/ ReassignGetUser(p)
    \/ ReassignListUsers(p)
    \/ ReassignShuffle(p)
    \/ ReassignUpdate(p)
    \/ ReturnHeader(p)
    \/ ReturnReviewers(p)
    \/ \E u \in UserIDs : ListUserReviews(p, u)

\* requests served concurrently, each by a handler of its own
Next == \E p \in Procs : Step(p)

Spec == Init /\ [][Next]_vars

\* requests served one after another: no call starts before the last returned
NextSeq == Step("h1")

SpecSeq == Init /\ [][NextSeq]_vars

\* ------------------------------------------------------------ transport
StatusBadRequest == 400
StatusNotFound == 404
StatusConflict == 409
StatusInternalServerError == 500

\* Handler.handleDomainError: the status and the code of the error response
\* written for the error an operation returned (nothing is written for nil)
handleDomainError(err) ==
    CASE err = ErrTeamExists ->
            [status |-> StatusBadRequest, code |-> "TEAM_EXISTS"]
      [] err = ErrPRExists ->
            [status |-> StatusConflict, code |-> "PR_EXISTS"]
      [] err = ErrPRMerged ->
            [status |-> StatusConflict, code |-> "PR_MERGED"]
      [] err = ErrReviewerNotFound ->
            [status |-> StatusConflict, code |-> "NOT_ASSIGNED"]
      [] err = ErrNoReplacement ->
            [status |-> StatusConflict, code |-> "NO_CANDIDATE"]
      [] err \in {ErrTeamNotFound, ErrUserNotFound, ErrPullRequestNotFound} ->
            [status |-> StatusNotFound, code |-> "NOT_FOUND"]
      [] OTHER ->
            [status |-> StatusInternalServerError, code |-> "INTERNAL"]

\* ------------------------------------------------- store calls that fail
\* the operations on pull requests
PROps == {"CreatePullRequest", "MergePullRequest", "ReassignReviewer"}

\* the positions at which the next thing a handler does is a store call
AtStoreCall ==
    {"cp_list", "cp_create", "mp_rev", "mp_update",
     "rr_rev", "rr_user", "rr_list", "rr_update", "ret_hdr", "ret_rev"}

\* the first store call of an operation fails for a reason of its own
\* (connection lost, context cancelled): `if err != nil { return ..., err }`
FirstCallFault(p, op, id, u) ==
    /\ CanStart(p)
    /\ ncalls' = ncalls + 1
    /\ call' = [call EXCEPT ![p] =
            Finish([Idle EXCEPT !.op = op, !.prID = id,
                                !.userID = IF op = "MergePullRequest" THEN "" ELSE u],
                   ErrConn)]
    /\ UNCHANGED <<teams, users, prs, reviewers, now, pick, tx>>

\* a later store call fails the same way and the handler returns the error.
\* A read changes nothing; the transaction of Create/UpdatePullRequest is
\* rolled back by withTx; the closing GetPullRequest of
\* Create/UpdatePullRequest (ret_hdr, ret_rev) runs after the commit.
\* CreatePullRequest reads the clock before its store write.
StoreFault(p) ==
    /\ call[p].pc \in AtStoreCall
    /\ call' = [call EXCEPT ![p] = Finish(call[p], ErrConn)]
    /\ now' \in IF call[p].pc = "cp_create" THEN TimeReads ELSE {now}
    /\ UNCHANGED <<teams, users, prs, reviewers, ncalls, pick, tx>>

\* requests served one after another by a store whose calls can fail
NextFault ==
    \/ Step("h1")
    \/ StoreFault("h1")
    \/ \E op \in PROps, id \in PRIDs, u \in UserIDs : FirstCallFault("h1", op, id, u)

SpecFault == Init /\ [][NextFault]_vars

\* ------------------------------------------- pickReviewers, taken alone
\* the orders rnd.Shuffle can leave a slice in
Shuffles(s) == {[i \in 1..Len(s) |-> s[f[i]]] : f \in Permutations(1..Len(s))}

\* pickReviewers shuffling the caller's slice instead of a copy of it
pickReviewersOnSlice_InPlace(slice, limit) ==
    IF Len(slice) = 0 \/ limit <= 0
    THEN {[users |-> slice, result |-> <<>>]}
    ELSE {[users  |-> copyUsers,
           result |-> [i \in 1..Min(limit, Len(copyUsers)) |-> copyUsers[i].ID]] :
            copyUsers \in Shuffles(slice)}

\* pickReviewers on the slice it is given: what it can return, and the slice
\* as it leaves it
pickReviewersOnSlice(slice, limit) ==
    IF Len(slice) = 0 \/ limit <= 0
    THEN {[users |-> slice, result |-> <<>>]}
    ELSE {[users  |-> slice,
           result |-> [i \in 1..Min(limit, Len(copyUsers)) |-> copyUsers[i].ID]] :
            copyUsers \in Shuffles(slice)}

\* a candidate, as the filters hand it to pickReviewers
Candidate(u) == [ID |-> u, Username |-> NameIn("backend"), TeamName |-> "backend",
                 IsActive |-> TRUE]

\* the candidate slices: distinct users in any order
PickPools ==
    {[i \in 1..Len(a) |-> Candidate(a[i])] :
        a \in UNION {Arrangements(UserIDs, n) : n \in 0..Len(UserOrder)}}

PickLimits == (0 - 1)..MaxLimit

InitPick ==
    /\ teams = {}
    /\ users = <<>>
    /\ prs = <<>>
    /\ reviewers = <<>>
    /\ now = 1
    /\ call = [p \in Procs |-> Idle]
    /\ ncalls = 0
    /\ tx = NoTx
    /\ pick \in {[pc |-> "call", users |-> s, limit |-> n, given |-> s, result |-> <<>>] :
                    s \in PickPools, n \in PickLimits}

\* one call pickReviewers(s.rnd, users, limit)
PickReviewersCall ==
    /\ pick.pc = "call"
    /\ \E o \in pickReviewersOnSlice(pick.users, pick.limit) :
        pick' = [pick EXCEPT !.pc = "returned", !.users = o.users, !.result = o.result]
    /\ UNCHANGED <<teams, users, prs, reviewers, now, call, ncalls, tx>>

NextPick == PickReviewersCall

SpecPick == InitPick /\ [][NextPick]_vars

\* ------------------------------- a store write, statement by statement
\* Store.CreatePullRequest and Store.UpdatePullRequest taken alone, one SQL
\* statement a step.  tx holds the arguments (op, pr), the statement withTx's
\* fn is at (pc) and the reviewer its loop is at (i), the tables as the
\* transaction sees them (wprs, wreviewers: its own writes over the
\* committed rows), the committed tables as they were when the call began
\* (prs0, reviewers0), and what the call returned (err, failedAt).
\* The users the store knows: the last id of UserOrder is in no team
TxUsers ==
    [u \in Roster("backend", Len(UserOrder) - 1) |->
        [Username |-> NameIn("backend"), TeamName |-> "backend", IsActive |-> TRUE]]

\* what is stored before the call: no PR, or pr-1 as CreatePullRequest left it
TxStored ==
    {[prs |-> <<>>, reviewers |-> <<>>]} \cup
    {[prs |-> [id \in PRIDs |->
                 [Name |-> "Initial", AuthorID |-> UserOrder[1], Status |-> StatusOpen,
                  CreatedAt |-> 1, MergedAt |-> NoTime]],
      reviewers |-> [id \in PRIDs |-> S]] :
        S \in SUBSET (DOMAIN TxUsers \ {UserOrder[1]})}

\* the reviewer lists a PR is written with: known and unknown ids, repeats
RECURSIVE TxReviewerLists(_)
TxReviewerLists(n) ==
    IF n = 0 THEN {<<>>}
    ELSE TxReviewerLists(n - 1) \cup
         {Append(r, u) : r \in {x \in TxReviewerLists(n - 1) : Len(x) = n - 1},
                         u \in UserIDs}

\* the PRs Create/UpdatePullRequest is called with
TxWrites ==
    {[ID |-> id, Name |-> "Initial", AuthorID |-> a, Status |-> st,
      AssignedReviewers |-> r, CreatedAt |-> 1,
      MergedAt |-> IF st = StatusMerged THEN 1 ELSE NoTime] :
        id \in PRIDs, a \in {UserOrder[1], UserOrder[Len(UserOrder)]},
        st \in {StatusOpen, StatusMerged}, r \in TxReviewerLists(MaxRows)}

InitTx ==
    /\ teams = {"backend"}
    /\ users = TxUsers
    /\ now = 1
    /\ call = [p \in Procs |-> Idle]
    /\ ncalls = 0
    /\ pick = NoPick
    /\ \E s \in TxStored : prs = s.prs /\ reviewers = s.reviewers
    /\ \E op \in {"create", "update"}, pr \in TxWrites :
        tx = [pc |-> "begin", op |-> op, pr |-> pr, i |-> 1,
              wprs |-> prs, wreviewers |-> reviewers,
              prs0 |-> prs, reviewers0 |-> reviewers,
              err |-> NoErr, failedAt |-> "none"]

\* the error PostgreSQL raises for the statement the transaction is at, as
\* translateError returns it; NoErr when the statement executes
TxStatementError(t) ==
    IF t.pc = "header" /\ t.op = "create" /\ t.pr.ID \in DOMAIN t.wprs
        THEN ErrPRExists
    ELSE IF t.pc = "header" /\ t.op = "update" /\ t.pr.ID \notin DOMAIN t.wprs
        THEN ErrPullRequestNotFound
    ELSE IF t.pc = "header" /\ t.pr.AuthorID \notin DOMAIN users
        THEN ErrConstraint
    ELSE IF t.pc = "rows" /\ t.pr.AssignedReviewers[t.i] \in t.wreviewers[t.pr.ID]
        THEN ErrConstraint
    ELSE IF t.pc = "rows" /\ t.pr.AssignedReviewers[t.i] \notin DOMAIN users
        THEN ErrConstraint
    ELSE NoErr

\* fn returned an error: withTx returns it, the deferred Rollback runs next
TxAbort(t, e) == [t EXCEPT !.pc = "rollback", !.err = e, !.failedAt = t.pc]

\* s.pool.BeginTx succeeds
TxBegin ==
    /\ tx.pc = "begin"
    /\ tx' = [tx EXCEPT !.pc = "header"]
    /\ UNCHANGED <<teams, users, prs, reviewers, now, call, ncalls, pick>>

\* the INSERT INTO / UPDATE pull_requests, and the RowsAffected() test
TxHeader ==
    /\ tx.pc = "header"
    /\ LET e == TxStatementError(tx)
       IN  IF e # NoErr
           THEN tx' = TxAbort(tx, e)
           ELSE tx' = [tx EXCEPT
                    !.pc = IF tx.op = "create" THEN "rows" ELSE "delete",
                    !.wprs = [id \in DOMAIN tx.wprs \cup {tx.pr.ID} |->
                                 IF id = tx.pr.ID THEN HeaderRow(tx.pr) ELSE tx.wprs[id]],
                    !.wreviewers = [id \in DOMAIN tx.wreviewers \cup {tx.pr.ID} |->
                                 IF id \in DOMAIN tx.wreviewers
                                 THEN tx.wreviewers[id] ELSE {}]]
    /\ UNCHANGED <<teams, users, prs, reviewers, now, call, ncalls, pick>>

\* DELETE FROM pull_request_reviewers WHERE pull_request_id = $1
TxDeleteReviewers ==
    /\ tx.pc = "delete"
    /\ tx' = [tx EXCEPT !.pc = "rows", !.wreviewers[tx.pr.ID] = {}]
    /\ UNCHANGED <<teams, users, prs, reviewers, now, call, ncalls, pick>>

\* INSERT INTO pull_request_reviewers, one turn of the loop
TxInsertReviewer ==
    /\ tx.pc = "rows"
    /\ tx.i <= Len(tx.pr.AssignedReviewers)
    /\ LET e == TxStatementError(tx)
       IN  IF e # NoErr
           THEN tx' = TxAbort(tx, e)
           ELSE tx' = [tx EXCEPT !.i = @ + 1,
                                 !.wreviewers[tx.pr.ID] = @ \cup {tx.pr.AssignedReviewers[tx.i]}]
    /\ UNCHANGED <<teams, users, prs, reviewers, now, call, ncalls, pick>>

\* BeginTx or a statement fails for a reason of its own (connection lost,
\* context cancelled): a failed BeginTx returns at once, a failed statement
\* makes fn return the error
TxFail ==
    /\ \/ tx.pc \in {"begin", "header", "delete"}
       \/ tx.pc = "rows" /\ tx.i <= Len(tx.pr.AssignedReviewers)
    /\ tx' = IF tx.pc = "begin"
             THEN [tx EXCEPT !.pc = "done", !.err = ErrConn, !.failedAt = "begin"]
             ELSE TxAbort(tx, ErrConn)
    /\ UNCHANGED <<teams, users, prs, reviewers, now, call, ncalls, pick>>

\* withTx with `defer tx.Commit(ctx)` in place of the deferred Rollback
Rollback_KeepsWrites(t) == [prs |-> t.wprs, reviewers |-> t.wreviewers]

\* the committed tables after `defer tx.Rollback(ctx)` ran on an open
\* transaction: its writes are discarded
Rollback(t) == [prs |-> prs, reviewers |-> reviewers]

\* withTx returns fn's error, the deferred Rollback runs
TxRollback ==
    /\ tx.pc = "rollback"
    /\ prs' = Rollback(tx).prs
    /\ reviewers' = Rollback(tx).reviewers
    /\ tx' = [tx EXCEPT !.pc = "done"]
    /\ UNCHANGED <<teams, users, now, call, ncalls, pick>>

\* fn returns nil after the last reviewer; tx.Commit(ctx) makes the writes
\* of the transaction the committed rows, all at once
TxCommit ==
    /\ tx.pc = "rows"
    /\ tx.i > Len(tx.pr.AssignedReviewers)
    /\ prs' = tx.wprs
    /\ reviewers' = tx.wreviewers
    /\ tx' = [tx EXCEPT !.pc = "done"]
    /\ UNCHANGED <<teams, users, now, call, ncalls, pick>>

NextTx ==
    \/ TxBegin
    \/ TxHeader
    \/ TxDeleteReviewers
    \/ TxInsertReviewer
    \/ TxFail
    \/ TxRollback
    \/ TxCommit

SpecTx == InitTx /\ [][NextTx]_vars

\* =============================================================== claims
\* the PR as the two statements of GetPullRequest would return it now
StoredPR(id) == [PRHeader(id) EXCEPT !.AssignedReviewers = ReviewerRows(id)]

\* handler p's store transaction on a PR commits in this step
Persists(p) ==
    /\ call[p].pc \in {"cp_create", "mp_update", "rr_update"}
    /\ call'[p].pc = "ret_hdr"

\* the active members of a roster other than user a
ActiveOthers(members, a) == {u \in members : u.IsActive /\ u.ID # a}

\* C1: in every reachable state no pull request has its author among its
\* assigned reviewers.
C1_AuthorNeverReviewer ==
    \A id \in DOMAIN prs : prs[id].AuthorID \notin reviewers[id]

\* C2: once the stored status of a pull request is MERGED it stays MERGED:
\* no step of any interleaving takes it back to OPEN.
C2_MergedStaysMerged ==
    [][\A id \in DOMAIN prs :
          prs[id].Status = StatusMerged => prs'[id].Status = StatusMerged]_vars

\* C3: the load and the persist of one operation are never separated by
\* another operation's write: when a handler's transaction commits, the rows
\* it loaded (the PR, the user, the roster) are still what the store holds.
C3_LoadPersistNotSeparated ==
    [][\A p \in Procs : Persists(p) =>
          LET c == call[p]
          IN  /\ c.op \in {"MergePullRequest", "ReassignReviewer"} =>
                    StoredPR(c.prID) = c.loaded
              /\ c.op \in {"CreatePullRequest", "ReassignReviewer"} =>
                    /\ c.user = UserRow(c.user.ID)
                    /\ c.members = UsersOfTeam(c.user.TeamName)]_vars

\* C4: a merge timestamp, once stored, is never changed by a
\* MergePullRequest call, also when two of them run concurrently.
C4_MergeTimestampSetOnce ==
    [][\A p \in Procs :
          (Persists(p) /\ call[p].op = "MergePullRequest") =>
              \A id \in DOMAIN prs :
                  prs[id].MergedAt # NoTime => prs'[id].MergedAt = prs[id].MergedAt]_vars

\* C5: with calls run one after another, a MergePullRequest that follows a
\* successful MergePullRequest of the same PR succeeds, returns status MERGED
\* and the merge timestamp the first call returned, and writes nothing.
C5_SecondMergeIdempotent ==
    \A p \in Procs :
        (call[p].op = "MergePullRequest" /\ call[p].prevMergedAt # NoTime) =>
            /\ ~call[p].wrote
            /\ call[p].pc \in {"mp_rev", "done"}
            /\ call[p].pc = "done" =>
                    /\ call[p].err = NoErr
                    /\ call[p].out.Status = StatusMerged
                    /\ call[p].out.MergedAt = call[p].prevMergedAt

C5_Witness ==
    \E p \in Procs :
        /\ call[p].op = "MergePullRequest" /\ call[p].pc = "done"
        /\ call[p].prevMergedAt # NoTime
        /\ call[p].out.MergedAt = call[p].prevMergedAt

\* C6: when CreatePullRequest stores a PR and the roster it loaded holds n
\* active members other than the author, the stored PR is OPEN and has
\* exactly 2 reviewers if n >= 2 and n otherwise, all distinct, none the author.
C6_CreateAssignsMinTwo ==
    [][\A p \in Procs :
          (Persists(p) /\ call[p].op = "CreatePullRequest") =>
              LET id == call[p].prID
                  a  == call[p].pr.AuthorID
                  n  == Cardinality(ActiveOthers(call[p].members, a))
              IN  /\ id \notin DOMAIN prs
                  /\ id \in DOMAIN prs'
                  /\ prs'[id].Status = StatusOpen
                  /\ prs'[id].AuthorID = a
                  /\ Cardinality(reviewers'[id]) = (IF n >= 2 THEN 2 ELSE n)
                  /\ Len(call'[p].pr.AssignedReviewers) = Cardinality(reviewers'[id])
                  /\ a \notin reviewers'[id]]_vars

C6_Witness ==
    \E p \in Procs :
        /\ call[p].op = "CreatePullRequest" /\ call[p].pc = "ret_hdr"
        /\ Cardinality(ActiveOthers(call[p].members, call[p].pr.AuthorID)) = 1
        /\ Cardinality(reviewers[call[p].prID]) = 1

\* C7: no reviewer list ever holds a user id twice: not the list a handler
\* loaded or is about to store, not the list it returns, and the store never
\* has to reject a write for a repeated (pull request, reviewer) row.
C7_NoDuplicateReviewers ==
    \A p \in Procs :
        /\ ~HasDuplicates(call[p].pr.AssignedReviewers)
        /\ ~HasDuplicates(call[p].out.AssignedReviewers)
        /\ call[p].err # ErrConstraint

C7_Witness ==
    /\ \A p \in Procs :
        /\ call[p].op = "ReassignReviewer" /\ call[p].wrote
        /\ call[p].pc = "done" /\ call[p].err = NoErr
    /\ \E id \in DOMAIN prs : Cardinality(reviewers[id]) = 2

\* C8: team backend = {u1, u2, u3}, all active, PR authored by u1 with
\* reviewers {u2, u3}: a ReassignReviewer of either reviewer never replaces
\* it by a user outside {u2, u3} (it fails with NoReplacementAvailable).
C8_Scenario(c) ==
    /\ c.op = "ReassignReviewer"
    /\ c.loaded.AuthorID = "u1"
    /\ Range(c.loaded.AssignedReviewers) = {"u2", "u3"}
    /\ {u.ID : u \in c.members} = {"u1", "u2", "u3"}
    /\ \A u \in c.members : u.IsActive /\ u.TeamName = "backend"

C8_ScenarioNoReplacement ==
    \A p \in Procs :
        (C8_Scenario(call[p]) /\ call[p].pc \in {"rr_update", "ret_hdr", "ret_rev"}) =>
            /\ call[p].pc # "rr_update"
            /\ call[p].replacedBy \in {"u2", "u3"}

\* C9: the replacement a ReassignReviewer has stored is, in the rows the call
\* loaded, an active user, different from the replaced reviewer and not one
\* of the PR's assigned reviewers; the id it returns differs from the old one.
C9_ReplacementIsFresh ==
    \A p \in Procs :
        LET c == call[p]
        IN  /\ (c.op = "ReassignReviewer" /\ c.pc \in {"ret_hdr", "ret_rev"}) =>
                    /\ c.replacedBy # c.userID
                    /\ c.replacedBy \notin Range(c.loaded.AssignedReviewers)
                    /\ \E u \in c.members : u.ID = c.replacedBy /\ u.IsActive
            /\ (c.op = "ReassignReviewer" /\ c.pc = "done" /\ c.err = NoErr) =>
                    /\ c.replacedBy \in UserIDs
                    /\ c.replacedBy # c.userID

C9_Witness ==
    \E p \in Procs :
        /\ call[p].op = "ReassignReviewer" /\ call[p].pc = "ret_rev"
        /\ \E u \in call[p].members : ~u.IsActive
        /\ Len(call[p].loaded.AssignedReviewers) = 2
        /\ call[p].replacedBy # call[p].loaded.AuthorID

\* C10: with no concurrent operation, the write of a ReassignReviewer turns
\* the PR's reviewer set into (the set before, minus old, plus new), new being
\* the id returned: new is in, old is out, the size is the same, and the
\* header (status, author, name, timestamps) is untouched; the PR returned
\* is the PR stored.
C10_ReassignReplacesOne ==
    [][\A p \in Procs :
          /\ (Persists(p) /\ call[p].op = "ReassignReviewer") =>
                LET id  == call[p].prID
                    old == call[p].userID
                    new == call'[p].replacedBy
                IN  /\ old \in reviewers[id]
                    /\ new \notin reviewers[id]
                    /\ reviewers'[id] = (reviewers[id] \ {old}) \cup {new}
                    /\ Cardinality(reviewers'[id]) = Cardinality(reviewers[id])
                    /\ prs' = prs
          /\ (call[p].op = "ReassignReviewer" /\ call[p].pc = "ret_rev"
                /\ call'[p].pc = "done") =>
                    /\ call'[p].err = NoErr
                    /\ call'[p].out = StoredPR(call[p].prID)
                    /\ call'[p].replacedBy = call[p].replacedBy
                    /\ contains(call'[p].out.AssignedReviewers, call'[p].replacedBy)
                    /\ ~contains(call'[p].out.AssignedReviewers, call[p].userID)]_vars

C10_Witness ==
    \E p \in Procs :
        /\ call[p].op = "ReassignReviewer" /\ call[p].pc = "done"
        /\ call[p].err = NoErr /\ call[p].wrote
        /\ Len(call[p].out.AssignedReviewers) = 2
        /\ contains(call[p].out.AssignedReviewers, call[p].replacedBy)

\* handler p takes a step
Moves(p) == call'[p] # call[p] \/ (CanStart(p) /\ ncalls' # ncalls)

\* C11: a ReassignReviewer that finds the stored status of the PR MERGED fails
\* with PRMerged, whether or not the old reviewer is assigned, and writes
\* nothing: reviewers, status and merge timestamp stay as they are.
C11_ReassignOnMergedFails ==
    [][\A p \in Procs :
          /\ (Free(p) /\ call'[p] # call[p] /\ call'[p].op = "ReassignReviewer"
                /\ call'[p].prID \in DOMAIN prs
                /\ prs[call'[p].prID].Status = StatusMerged) =>
                    /\ call'[p].pc = "rr_rev"
                    /\ call'[p].pr.Status = StatusMerged
          /\ (call[p].op = "ReassignReviewer" /\ call[p].pc = "rr_rev"
                /\ call[p].pr.Status = StatusMerged /\ call'[p] # call[p]) =>
                    /\ call'[p].pc = "done"
                    /\ call'[p].err = ErrPRMerged
                    /\ ~call'[p].wrote
                    /\ prs' = prs
                    /\ reviewers' = reviewers]_vars

C11_Witness ==
    \E p \in Procs :
        /\ call[p].op = "ReassignReviewer" /\ call[p].pc = "done"
        /\ call[p].err = ErrPRMerged
        /\ call[p].prID \in DOMAIN prs
        /\ prs[call[p].prID].Status = StatusMerged
        /\ call[p].userID \in reviewers[call[p].prID]

\* C12: once the store has recorded status MERGED for a PR, no step of any
\* interleaving of MergePullRequest and ReassignReviewer calls changes its
\* stored reviewer set.
C12_ReviewersFrozenOnceMerged ==
    [][\A id \in DOMAIN prs :
          prs[id].Status = StatusMerged => reviewers'[id] = reviewers[id]]_vars

\* C13: a ReassignReviewer whose write lands on an OPEN PR has computed it
\* from the reviewer set the store holds at that moment: it never succeeds on
\* the basis of a reviewer set another reassignment has replaced meanwhile.
C13_NoLostReassignment ==
    [][\A p \in Procs :
          (Persists(p) /\ call[p].op = "ReassignReviewer"
              /\ prs[call[p].prID].Status = StatusOpen) =>
                  reviewers[call[p].prID] = Range(call[p].loaded.AssignedReviewers)]_vars

\* C14 as stated: a CreatePullRequest that returns without having stored
\* anything while its id is in use returns AlreadyExists.
C14_ExistingIdAlreadyExists ==
    [][\A p \in Procs :
          (Moves(p) /\ call'[p].op = "CreatePullRequest" /\ call'[p].pc = "done"
              /\ ~call'[p].wrote /\ call'[p].prID \in DOMAIN prs) =>
                  call'[p].err = ErrPRExists]_vars

\* C14 amended: a CreatePullRequest with an id in use and an author who is a
\* known user gets as far as the store, fails there with AlreadyExists and
\* leaves the stored PR as it is; a CreatePullRequest stores only under an id
\* not in use, so of two concurrent calls with one id exactly one stores, the
\* other fails with AlreadyExists, and the stored PR is the winner's.
C14_KnownAuthorAlreadyExists ==
    [][\A p \in Procs :
          /\ (Moves(p) /\ CanStart(p) /\ call'[p].op = "CreatePullRequest"
                /\ call'[p].prID \in DOMAIN prs
                /\ call'[p].pr.AuthorID \in DOMAIN users) =>
                    call'[p].pc = "cp_list"
          /\ (call[p].pc = "cp_list" /\ Moves(p)) =>
                    call'[p].pc \in {"cp_shuffle", "cp_create"}
          /\ (call[p].pc = "cp_shuffle" /\ Moves(p)) => call'[p].pc = "cp_create"
          /\ (call[p].pc = "cp_create" /\ Moves(p) /\ call[p].prID \in DOMAIN prs) =>
                    /\ call'[p].pc = "done"
                    /\ call'[p].err = ErrPRExists
                    /\ ~call'[p].wrote
                    /\ prs' = prs
                    /\ reviewers' = reviewers
          /\ (call[p].pc = "cp_create" /\ Moves(p) /\ call[p].prID \notin DOMAIN prs) =>
                    /\ call'[p].pc = "ret_hdr"
                    /\ call'[p].wrote
                    /\ prs'[call[p].prID] = HeaderRow(call'[p].pr)
                    /\ reviewers'[call[p].prID] = Range(call'[p].pr.AssignedReviewers)
          /\ \A q \in Procs \ {p} :
                (call'[p].op = "CreatePullRequest" /\ call'[q].op = "CreatePullRequest"
                    /\ call'[p].prID = call'[q].prID) =>
                        ~(call'[p].wrote /\ call'[q].wrote)]_vars

C14_Witness ==
    \E p, q \in Procs :
        /\ call[p].op = "CreatePullRequest" /\ call[q].op = "CreatePullRequest"
        /\ call[p].prID = call[q].prID
        /\ call[p].pc \in {"ret_hdr", "ret_rev"} /\ call[p].wrote
        /\ call[q].pc = "done" /\ call[q].err = ErrPRExists
        /\ prs[call[p].prID].AuthorID = call[p].pr.AuthorID

\* a PR value carries a merge timestamp exactly when its status is MERGED
StampedIffMerged(pr) == (pr.MergedAt # NoTime) <=> (pr.Status = StatusMerged)

\* C15: in every reachable state, concurrent merges and reassignments
\* included, each stored pull request, and each pull request a call has
\* loaded, is about to store or has returned, has a merge timestamp if and
\* only if its status is MERGED.
C15_MergedAtIffMerged ==
    /\ \A id \in DOMAIN prs : StampedIffMerged(prs[id])
    /\ \A p \in Procs :
        /\ StampedIffMerged(call[p].pr)
        /\ StampedIffMerged(call[p].out)
        /\ \A i \in 1..Len(call[p].listed) : StampedIffMerged(call[p].listed[i])

\* a ReassignReviewer has written its stale OPEN copy over a stored MERGED
\* row, while the merge that stored it has returned its timestamp
C15_Witness ==
    \E p, q \in Procs :
        /\ call[p].op = "MergePullRequest" /\ call[p].pc = "done"
        /\ call[p].err = NoErr /\ call[p].out.MergedAt # NoTime
        /\ call[q].op = "ReassignReviewer" /\ call[q].wrote
        /\ prs[call[p].prID].Status = StatusOpen
        /\ prs[call[p].prID].MergedAt = NoTime

\* C16: a ReassignReviewer on an OPEN PR whose reviewer rows do not hold the
\* old reviewer fails with ReviewerNotAssigned, also when the old reviewer is
\* not a known user, and writes nothing.
C16_UnassignedFails ==
    [][\A p \in Procs :
          /\ (Moves(p) /\ CanStart(p) /\ call'[p].op = "ReassignReviewer"
                /\ call'[p].prID \in DOMAIN prs
                /\ prs[call'[p].prID].Status = StatusOpen) =>
                    /\ call'[p].pc = "rr_rev"
                    /\ call'[p].pr.Status = StatusOpen
          /\ (call[p].op = "ReassignReviewer" /\ call[p].pc = "rr_rev" /\ Moves(p)
                /\ call[p].pr.Status = StatusOpen
                /\ call[p].userID \notin reviewers[call[p].prID]) =>
                    /\ call'[p].pc = "done"
                    /\ call'[p].err = ErrReviewerNotFound
                    /\ ~call'[p].wrote
                    /\ prs' = prs
                    /\ reviewers' = reviewers]_vars

C16_Witness ==
    \E p \in Procs :
        /\ call[p].op = "ReassignReviewer" /\ call[p].pc = "done"
        /\ call[p].err = ErrReviewerNotFound
        /\ call[p].userID \notin DOMAIN users
        /\ prs[call[p].prID].Status = StatusOpen
        /\ reviewers[call[p].prID] # {}

\* the users of team t that are active, are not user old and are not in revs
Pool(t, old, revs) ==
    {u \in DOMAIN users :
        /\ users[u].TeamName = t
        /\ users[u].IsActive
        /\ u # old
        /\ u \notin Range(revs)}

\* C17: a ReassignReviewer that has passed its checks and reads the roster
\* of the old reviewer's team fails with NoReplacementAvailable exactly when
\* the roster without the old reviewer, without inactive users and without
\* the assigned reviewers is empty; it then writes nothing.  No other step
\* returns NoReplacementAvailable.
C17_NoReplacementIffPoolEmpty ==
    [][\A p \in Procs :
          /\ (call[p].op = "ReassignReviewer" /\ call[p].pc = "rr_list" /\ Moves(p)) =>
                LET pool == Pool(call[p].user.TeamName, call[p].userID,
                                 call[p].pr.AssignedReviewers)
                IN  /\ (call'[p].pc = "done" /\ call'[p].err = ErrNoReplacement)
                            <=> (pool = {})
                    /\ pool = {} =>
                            /\ ~call'[p].wrote
                            /\ prs' = prs
                            /\ reviewers' = reviewers
                    /\ pool # {} => call'[p].pc = "rr_shuffle"
          /\ (call'[p] # call[p] /\ call'[p].pc = "done"
                /\ call'[p].err = ErrNoReplacement) =>
                    /\ call[p].pc = "rr_list"
                    /\ ~call'[p].wrote]_vars

C17_Witness ==
    \E p \in Procs :
        /\ call[p].op = "ReassignReviewer" /\ call[p].pc = "done"
        /\ call[p].err = ErrNoReplacement
        /\ call[p].userID \in reviewers[call[p].prID]
        /\ \E u \in DOMAIN users :
              /\ users[u].TeamName = users[call[p].userID].TeamName
              /\ ~users[u].IsActive
              /\ u \notin reviewers[call[p].prID]

\* C18: ListUserReviews(userID) returns, without error, the pull requests
\* whose reviewer rows hold userID, OPEN and MERGED alike, each once and with
\* its stored header, and no others; it changes no stored row.
C18_ListIsExactProjection ==
    [][\A p \in Procs :
          (Moves(p) /\ call'[p].op = "ListUserReviews") =>
              LET u    == call'[p].userID
                  rows == call'[p].listed
              IN  /\ call'[p].pc = "done"
                  /\ call'[p].err = NoErr
                  /\ \A id \in DOMAIN prs :
                        Cardinality({i \in 1..Len(rows) : rows[i].ID = id})
                            = (IF u \in reviewers[id] THEN 1 ELSE 0)
                  /\ \A i \in 1..Len(rows) :
                        /\ rows[i].ID \in DOMAIN prs
                        /\ HeaderRow(rows[i]) = prs[rows[i].ID]
                  /\ UNCHANGED <<teams, users, prs, reviewers>>]_vars

C18_Witness ==
    \E p \in Procs :
        /\ call[p].op = "ListUserReviews" /\ call[p].pc = "done"
        /\ Len(call[p].listed) = 1
        /\ call[p].listed[1].Status = StatusMerged
        /\ call[p].userID \in reviewers[call[p].listed[1].ID]

\* C19: a CreatePullRequest whose authorID is not a known user fails with
\* NotFound (user) and creates nothing; a MergePullRequest or a
\* ReassignReviewer on a PR id the store does not hold fails with NotFound
\* (pull request); neither changes any stored row.
C19_MissingUserOrPRNotFound ==
    [][\A p \in Procs :
          /\ (Moves(p) /\ CanStart(p) /\ call'[p].op = "CreatePullRequest"
                /\ call'[p].userID \notin DOMAIN users) =>
                    /\ call'[p].pc = "done"
                    /\ call'[p].err = ErrUserNotFound
                    /\ ~call'[p].wrote
                    /\ UNCHANGED <<teams, users, prs, reviewers>>
          /\ (Moves(p) /\ CanStart(p)
                /\ call'[p].op \in {"MergePullRequest", "ReassignReviewer"}
                /\ call'[p].prID \notin DOMAIN prs) =>
                    /\ call'[p].pc = "done"
                    /\ call'[p].err = ErrPullRequestNotFound
                    /\ ~call'[p].wrote
                    /\ UNCHANGED <<teams, users, prs, reviewers>>]_vars

C19_Witness ==
    \E p \in Procs :
        /\ call[p].op = "CreatePullRequest" /\ call[p].pc = "done"
        /\ call[p].err = ErrUserNotFound
        /\ call[p].userID \notin DOMAIN users
        /\ users # <<>>
        /\ call[p].prID \notin DOMAIN prs

\* the first failure condition of ReassignReviewer(id, old) that holds of
\* the stored rows, in the order the claim gives; NoErr when none holds
FirstReassignFailure(id, old) ==
    IF id \notin DOMAIN prs THEN ErrPullRequestNotFound
    ELSE IF prs[id].Status = StatusMerged THEN ErrPRMerged
    ELSE IF old \notin reviewers[id] THEN ErrReviewerNotFound
    ELSE IF old \notin DOMAIN users THEN ErrUserNotFound
    ELSE IF Pool(users[old].TeamName, old, ReviewerRows(id)) = {} THEN ErrNoReplacement
    ELSE NoErr

\* C20: with calls run one after another, a ReassignReviewer that returns
\* without a write has failed with the first condition that holds, in the
\* order PR missing, PR MERGED, old reviewer not assigned, old reviewer
\* unknown, no candidate; and one that gets to its write had none of them.
C20_FirstFailureReported ==
    \A p \in Procs :
        /\ (call[p].op = "ReassignReviewer" /\ call[p].pc = "done" /\ ~call[p].wrote) =>
                /\ call[p].err # NoErr
                /\ call[p].err = FirstReassignFailure(call[p].prID, call[p].userID)
        /\ (call[p].op = "ReassignReviewer" /\ call[p].pc \in {"rr_shuffle", "rr_update"}) =>
                FirstReassignFailure(call[p].prID, call[p].userID) = NoErr

C20_Witness ==
    \E p \in Procs :
        /\ call[p].op = "ReassignReviewer" /\ call[p].pc = "done"
        /\ call[p].err = ErrPRMerged
        /\ call[p].userID \notin reviewers[call[p].prID]
        /\ call[p].userID \notin DOMAIN users

\* C21: at the step CreatePullRequest or ReassignReviewer persists a newly
\* chosen reviewer, that user is active in the store, also when a
\* SetUserActive(user, false) ran between the roster load and the write.
C21_ChosenReviewerActiveAtWrite ==
    [][\A p \in Procs :
          /\ (Persists(p) /\ call[p].op = "CreatePullRequest") =>
                \A r \in reviewers'[call[p].prID] : users[r].IsActive
          /\ (Persists(p) /\ call[p].op = "ReassignReviewer") =>
                users[call'[p].replacedBy].IsActive]_vars

\* C22: no step changes the display name or the team of an existing user,
\* and the active flag of an existing user changes only in a step of
\* SetUserActive; in particular not in a step of CreateTeam.
C22_UserIdentityImmutable ==
    [][\A u \in DOMAIN users :
          /\ u \in DOMAIN users'
          /\ users'[u].Username = users[u].Username
          /\ users'[u].TeamName = users[u].TeamName
          /\ users'[u].IsActive # users[u].IsActive =>
                \E p \in Procs : Moves(p) /\ call'[p].op = "SetUserActive"]_vars

\* handler p is inside s.rnd.Shuffle: it reads and writes the generator
InShuffle(p) == call[p].pc \in {"cp_shuffle", "rr_shuffle"}

\* C23: two operations that select reviewers never access the state of the
\* shared generator at the same time.
C23_GeneratorNeverShared ==
    \A p, q \in Procs : p # q => ~(InShuffle(p) /\ InShuffle(q))

\* C25: for every candidate slice with distinct ids and every count,
\* pickReviewers returns ids without repetition, all of them ids of the
\* slice, min(count, length) of them when count > 0 and none when the slice
\* is empty or count <= 0; the slice it was given is as it was.
C25_PickIsSubsetOfRightSize ==
    pick.pc = "returned" =>
        LET ids == {pick.given[i].ID : i \in 1..Len(pick.given)}
        IN  /\ ~HasDuplicates(pick.result)
            /\ Range(pick.result) \subseteq ids
            /\ pick.limit > 0 =>
                    Len(pick.result) = (IF pick.limit < Len(pick.given)
                                        THEN pick.limit ELSE Len(pick.given))
            /\ (Len(pick.given) = 0 \/ pick.limit <= 0) => pick.result = <<>>
            /\ pick.users = pick.given

C25_Witness ==
    /\ pick.pc = "returned"
    /\ Len(pick.given) = 3
    /\ pick.limit = 2
    /\ Len(pick.result) = 2
    /\ pick.result[1] # pick.given[1].ID

\* C24: when a call loads a roster, its members are the users the store
\* holds in the team of the anchor user (the author for CreatePullRequest,
\* the replaced reviewer for ReassignReviewer) at that moment, and the
\* reviewers the call then stores are among them.
C24_ChosenFromAnchorTeam ==
    [][\A p \in Procs :
          /\ (call[p].pc \in {"cp_list", "rr_list"} /\ Moves(p)) =>
                \A m \in call'[p].members :
                    users[m.ID].TeamName = users[call[p].user.ID].TeamName
          /\ (Persists(p) /\ call[p].op = "CreatePullRequest") =>
                /\ call[p].user.ID = prs'[call[p].prID].AuthorID
                /\ reviewers'[call[p].prID] \subseteq {m.ID : m \in call[p].members}
          /\ (Persists(p) /\ call[p].op = "ReassignReviewer") =>
                /\ call[p].user.ID = call[p].userID
                /\ call'[p].replacedBy \in {m.ID : m \in call[p].members}]_vars

\* C26: a store write to a pull request is all-or-nothing.  While the
\* transaction of Create/UpdatePullRequest runs, and after it failed at
\* BeginTx, at the header statement, at the DELETE or at any reviewer row,
\* the committed header and reviewer rows are those from before the call:
\* nothing is changed, nothing is created.  After it succeeded, the header
\* and the reviewer rows are both the ones of the PR written.
C26_WriteAllOrNothing ==
    /\ (tx.pc \notin {"none", "done"} \/ (tx.pc = "done" /\ tx.err # NoErr)) =>
            /\ prs = tx.prs0
            /\ reviewers = tx.reviewers0
    /\ (tx.pc = "done" /\ tx.err = NoErr) =>
            /\ prs[tx.pr.ID] = HeaderRow(tx.pr)
            /\ reviewers[tx.pr.ID] = Range(tx.pr.AssignedReviewers)
            /\ \A id \in DOMAIN tx.prs0 \ {tx.pr.ID} :
                    prs[id] = tx.prs0[id] /\ reviewers[id] = tx.reviewers0[id]

\* an UpdatePullRequest that had rewritten the header to MERGED, deleted the
\* two reviewer rows and inserted one, failed at the second reviewer row
C26_Witness ==
    /\ tx.pc = "done"
    /\ tx.op = "update"
    /\ tx.err # NoErr
    /\ tx.failedAt = "rows"
    /\ tx.i = 2
    /\ tx.pr.Status = StatusMerged
    /\ tx.wprs[tx.pr.ID].Status = StatusMerged
    /\ prs[tx.pr.ID].Status = StatusOpen
    /\ Cardinality(reviewers[tx.pr.ID]) = 2
    /\ Cardinality(tx.wreviewers[tx.pr.ID]) = 1

\* the errors a store call returns
StoreErrors ==
    {ErrUserNotFound, ErrTeamNotFound, ErrPullRequestNotFound, ErrPRExists,
     ErrConstraint, ErrConn}

\* C27: when a store call made by CreatePullRequest, MergePullRequest or
\* ReassignReviewer fails, the operation returns that error at once, and the
\* store is as it was before the operation: the failing step changes no
\* table and no transaction of the operation has committed.
C27_FailedCallLeavesStore ==
    [][\A p \in Procs :
          (/\ Moves(p)
           /\ call'[p].pc = "done"
           /\ call'[p].op \in PROps
           /\ call'[p].err \in StoreErrors) =>
                /\ UNCHANGED <<teams, users, prs, reviewers>>
                /\ ~call'[p].wrote]_vars

\* the kind of an error, in the taxonomy of the error handling design
Kind(err) ==
    CASE err \in {ErrTeamNotFound, ErrUserNotFound, ErrPullRequestNotFound} -> "NotFound"
      [] err \in {ErrTeamExists, ErrPRExists} -> "AlreadyExists"
      [] err = ErrPRMerged -> "PRMerged"
      [] err = ErrReviewerNotFound -> "ReviewerNotAssigned"
      [] err = ErrNoReplacement -> "NoReplacementAvailable"
      [] OTHER -> "none"

\* C28: the transport layer maps the five error kinds to pairwise distinct
\* HTTP statuses and pairwise distinct codes: two calls that returned errors
\* of different kinds are answered with different statuses and different
\* codes.
C28_KindsMappedApart ==
    \A p, q \in Procs :
        (/\ call[p].pc = "done" /\ call[q].pc = "done"
         /\ Kind(call[p].err) # "none" /\ Kind(call[q].err) # "none"
         /\ Kind(call[p].err) # Kind(call[q].err)) =>
              /\ handleDomainError(call[p].err).status # handleDomainError(call[q].err).status
              /\ handleDomainError(call[p].err).code # handleDomainError(call[q].err).code

\* C29: CreateTeam with a team name that already exists fails with the
\* team-already-exists error and changes nothing: no team is created, no
\* user is inserted or modified, no PR is touched.
C29_ExistingTeamRejected ==
    [][\A p \in Procs :
          (/\ Moves(p)
           /\ call'[p].op = "CreateTeam"
           /\ call'[p].pc = "done"
           /\ call'[p].team \in teams) =>
                /\ call'[p].err = ErrTeamExists
                /\ ~call'[p].wrote
                /\ UNCHANGED <<teams, users, prs, reviewers>>]_vars

\* a rejected CreateTeam, while a member of that team is inactive and some
\* user id is still unknown: any request roster would have changed a row
C29_Witness ==
    \E p \in Procs :
        /\ call[p].op = "CreateTeam"
        /\ call[p].pc = "done"
        /\ call[p].err = ErrTeamExists
        /\ call[p].team \in teams
        /\ \E u \in DOMAIN users :
                users[u].TeamName = call[p].team /\ ~users[u].IsActive
        /\ \E u \in UserIDs : u \notin DOMAIN users

C31_DeactivationKeepsAssignments ==
    [][\A p \in Procs :
          /\ (Moves(p) /\ call'[p].op = "SetUserActive") =>
                /\ UNCHANGED <<prs, reviewers, teams>>
                /\ DOMAIN users' = DOMAIN users
                /\ \A u \in DOMAIN users :
                      /\ users'[u].Username = users[u].Username
                      /\ users'[u].TeamName = users[u].TeamName
                      /\ u # call'[p].userID => users'[u] = users[u]
          /\ (/\ Moves(p)
              /\ call[p].pc = "rr_rev"
              /\ call[p].pr.Status = StatusOpen
              /\ call[p].userID \in reviewers[call[p].prID]
              /\ call[p].userID \in DOMAIN users
              /\ ~users[call[p].userID].IsActive) =>
                    call'[p].pc = "rr_user"
          /\ (/\ Moves(p)
              /\ call[p].pc = "rr_user"
              /\ call[p].userID \in DOMAIN users
              /\ ~users[call[p].userID].IsActive) =>
                    /\ call'[p].pc = "rr_list"
                    /\ call'[p].user = UserRow(call[p].userID)]_vars

\* after a SetUserActive(false) the user is still a reviewer of the PR, and
\* a ReassignReviewer naming them has loaded their inactive row and a roster
\* with a candidate, and is about to write the replacement
C31_Witness ==
    \E p \in Procs :
        /\ call[p].op = "ReassignReviewer"
        /\ call[p].pc = "rr_update"
        /\ call[p].user.ID = call[p].userID
        /\ ~call[p].user.IsActive
        /\ ~users[call[p].userID].IsActive
        /\ call[p].userID \in reviewers[call[p].prID]
        /\ prs[call[p].prID].Status = StatusOpen
        /\ Candidates(call[p]) # {}

\* C32: in every state reachable through the service operations, served
\* one after another or concurrently, every pull request has at most 2
\* assigned reviewers, and the number of reviewers of a PR never changes
\* after its creation.
C32_ReviewerCountFixed ==
    [][/\ \A id \in DOMAIN prs' :
              /\ id \in DOMAIN reviewers'
              /\ Cardinality(reviewers'[id]) <= 2
       /\ \A id \in DOMAIN prs :
              /\ id \in DOMAIN prs'
              /\ Cardinality(reviewers'[id]) = Cardinality(reviewers[id])]_vars

\* two concurrent reassignments of one PR have both been written, and the
\* PR still has the two reviewers it was created with
C32_Witness ==
    /\ \A p \in Procs :
          /\ call[p].op = "ReassignReviewer"
          /\ call[p].pc = "done"
          /\ call[p].err = NoErr
          /\ call[p].wrote
    /\ \E p, q \in Procs :
          /\ p # q
          /\ call[p].prID = call[q].prID
          /\ call[p].userID # call[q].userID
          /\ Cardinality(reviewers[call[p].prID]) = 2

====
